---- MODULE Spec2Model ----
(***************************************************************************)
(* Model of src/03-human-review-async.ts (the server with the SSE          *)
(* broadcaster, lines 263-635): the /webhook reconciliation handler, the   *)
(* /process classification trigger, the email_classifications table and    *)
(* the /sse subscriber registry.                                           *)
(*                                                                         *)
(* Every handler is an async function on one Node event loop: it runs      *)
(* atomically between two awaits, and handlers interleave at the awaits.   *)
(* One action below is one such stretch together with the database         *)
(* statement it awaits; the statement is the point where it takes effect.  *)
(*                                                                         *)
(* Strings whose content the code inspects (comments, labels) are          *)
(* sequences of tokens; a token is a piece of text the code never looks    *)
(* inside.                                                                 *)
(*                                                                         *)
(* Four specifications share the actions: Spec (two concurrent callbacks   *)
(* and /process), SpecSse (subscribers, one callback at a time, /process), *)
(* SpecReconcile (one pending row, callbacks of every shape) and SpecFault *)
(* (one callback at a time, /process, one subscriber). In the first three  *)
(* every database statement and every dispatch succeeds, except the INSERT *)
(* of an id that is already in the table; in SpecFault each may fail.      *)
(***************************************************************************)
EXTENDS Naturals, Sequences, FiniteSets

\* ------------------------------------------------------------------ bounds

\* longest comment, in tokens, a callback of SpecReconcile carries
MaxCommentLen == 2
\* keepalives written to one subscriber in SpecFault
MaxHeartbeats == 1

\* ------------------------------------------------------------ value domains

\* correlation ids `call-xxxxxxxx` the id generator can return
Ids == {"call-1", "call-2"}
\* concurrently open /webhook requests
Handlers == {"w1", "w2"}
\* /sse connections (one express.Response each)
Subs == {"s1", "s2"}

\* JavaScript undefined, for a field the callback does not carry
Undefined == <<"<undefined>">>
\* JavaScript null / SQL NULL
Null == <<"<null>">>

\* the override marker the handler searches for: followed by a blank
\* (MarkerBlank) or by anything else (Marker); a string is cut into tokens so
\* that the text 'manual classify:' occurs exactly at these two tokens
Marker == "manual classify:"
MarkerBlank == "manual classify: "

\* the closed label vocabulary (classificationValues of common.ts)
classificationValues == {<<"read">>, <<"spam">>, <<"important">>}
\* mutant: the handler falls back to another label
DefaultLabelSpam == <<"spam">>

\* the label the handler falls back to
DefaultLabel == <<"read">>

\* the emails /process walks through, by position
twoEmailsShuffled == <<"email-a", "email-b">>

\* ---------------------------------------------------------------- strings

\* comment.includes('manual classify:')
IncludesMarker(s) ==
    \E i \in 1..Len(s) : s[i] \in {Marker, MarkerBlank}

\* comment.replace('manual classify: ', ''): the first occurrence only
ReplaceMarker(s) ==
    IF \E i \in 1..Len(s) : s[i] = MarkerBlank
    THEN LET i == CHOOSE k \in 1..Len(s) :
                      /\ s[k] = MarkerBlank
                      /\ \A j \in 1..(k - 1) : s[j] # MarkerBlank
         IN  SubSeq(s, 1, i - 1) \o SubSeq(s, i + 1, Len(s))
    ELSE s

\* JavaScript truthiness of a string-or-missing value
Truthy(x) == x # Undefined /\ x # Null /\ x # <<>>

\* mutant: the value is passed on without its fallback
OrElseNothing(x, d) == x

\* x || d
OrElse(x, d) == IF Truthy(x) THEN x ELSE d

\* ------------------------------------------------------------------- state

VARIABLES
    store,        \* the email_classifications table: id -> row
    sseClients,   \* the array of registered SSE responses
    wpc,          \* each /webhook request's position
    wbody,        \* the body of the callback a request carries
    wargs,        \* the arguments of its updateWithHumanReview call
    wres,         \* the response it sent
    wtouched,     \* how many statements it has sent to the database
    wlate,        \* whether its record was completed when it arrived
    wmalformed,   \* whether its callback carried no correlation id
    emitted,      \* per id, the update events broadcast
    ppc,          \* /process: position
    pidx,         \* /process: index into twoEmailsShuffled
    pcall,        \* /process: [callId, classification] of this iteration
    pres,         \* /process: the response sent
    dispatched,   \* ids handed to hl.createFunctionCall
    spc,          \* each /sse connection's position
    conn,         \* whether its socket is open
    listener,     \* whether its 'close' listener is registered
    heartbeat,    \* whether its keepalive interval is running
    retries,      \* its snapshot loop's `retries`
    attempts,     \* how many snapshot queries it has sent
    received      \* what has been written to its response, in order

wvars == <<wpc, wbody, wargs, wres, wtouched, wlate, wmalformed>>
pvars == <<ppc, pidx, pcall, pres, dispatched>>
svars == <<spc, conn, listener, heartbeat, retries, attempts>>
vars == <<store, sseClients, wvars, emitted, pvars, svars, received>>

NoBody == [kwargs |-> FALSE, call_id |-> "", classification |-> Undefined,
           approved |-> FALSE, comment |-> Undefined]
NoArgs == [callId |-> "", humanClassification |-> Null, humanComment |-> <<>>]
NoResponse == [code |-> 0, status |-> ""]
NoCall == [callId |-> "", classification |-> Null]
\* a row of email_classifications (created_at and updated_at are left out)
NoRow == [email |-> "", classification |-> Null, human_classification |-> Null,
          human_comment |-> Null, has_human_review |-> FALSE, status |-> ""]

\* a freshly started process: no request in flight, no subscriber
Started ==
    /\ sseClients = <<>>
    /\ wpc = [h \in Handlers |-> "idle"]
    /\ wbody = [h \in Handlers |-> NoBody]
    /\ wargs = [h \in Handlers |-> NoArgs]
    /\ wres = [h \in Handlers |-> NoResponse]
    /\ wtouched = [h \in Handlers |-> 0]
    /\ wlate = [h \in Handlers |-> FALSE]
    /\ wmalformed = [h \in Handlers |-> FALSE]
    /\ emitted = [i \in Ids |-> 0]
    /\ ppc = "idle"
    /\ pidx = 0
    /\ pcall = NoCall
    /\ pres = NoResponse
    /\ dispatched = {}
    /\ spc = [s \in Subs |-> "idle"]
    /\ conn = [s \in Subs |-> "none"]
    /\ listener = [s \in Subs |-> FALSE]
    /\ heartbeat = [s \in Subs |-> FALSE]
    /\ retries = [s \in Subs |-> 0]
    /\ attempts = [s \in Subs |-> 0]
    /\ received = [s \in Subs |-> <<>>]

\* the process starts on an empty table
Init ==
    /\ store = [i \in {} |-> NoRow]
    /\ Started

\* ----------------------------------------------------------------- /webhook

\* `!webhook.spec?.kwargs`
MissingKwargs(body) == ~body.kwargs

\* mutant: the call_id check is missing
MissingCallIdDropped(body) == FALSE

\* `!callId`
MissingCallId(body) == body.call_id = ""

\* SELECT status FROM email_classifications WHERE id = ?, then rows[0]?.status
recordStatus(callId) ==
    IF callId \in DOMAIN store THEN store[callId].status ELSE ""

\* mutant: the no-record branch is missing
NoRecordFoundDropped(status) == FALSE

\* `!recordStatus`
NoRecordFound(status) == status = ""

\* mutant: the already-completed branch is missing
AlreadyCompletedDropped(status) == FALSE

\* `recordStatus === 'completed'`
AlreadyCompleted(status) == status = "completed"

\* the human classification read off the callback (null when none is found)
humanClassification(body) ==
    IF body.approved /\ body.kwargs
    THEN body.classification
    ELSE IF body.comment # Undefined /\ IncludesMarker(body.comment)
         THEN ReplaceMarker(body.comment)
         ELSE Null

\* the arguments the handler passes to updateWithHumanReview
updateArgs(body) ==
    [callId |-> body.call_id,
     humanClassification |-> OrElse(humanClassification(body), DefaultLabel),
     humanComment |-> OrElse(body.comment, <<>>)]

\* mutant: the UPDATE also overwrites the proposed label with the final one
UpdatedRowRelabelled(row, args) ==
    [row EXCEPT !.classification = args.humanClassification,
                !.human_classification = args.humanClassification,
                !.human_comment = args.humanComment,
                !.status = "completed",
                !.has_human_review = TRUE]

\* mutant: the UPDATE writes the label and the comment but not the status
UpdatedRowPending(row, args) ==
    [row EXCEPT !.human_classification = args.humanClassification,
                !.human_comment = args.humanComment,
                !.has_human_review = TRUE]

\* the row the UPDATE statement leaves behind
UpdatedRow(row, args) ==
    [row EXCEPT !.human_classification = args.humanClassification,
                !.human_comment = args.humanComment,
                !.status = "completed",
                !.has_human_review = TRUE]

\* the rows the UPDATE ... WHERE id = ? matches
affectedRows(callId) == IF callId \in DOMAIN store THEN 1 ELSE 0

\* mutant: the payload is built without the reviewer's comment
updatePayloadWithoutComment(args) ==
    [type |-> "update", callId |-> args.callId,
     humanClassification |-> args.humanClassification,
     humanComment |-> <<>>]

\* the payload broadcast after an update (its timestamp is left out)
updatePayload(args) ==
    [type |-> "update", callId |-> args.callId,
     humanClassification |-> args.humanClassification,
     humanComment |-> args.humanComment]

\* how often subscriber s is in the registry
Occurrences(clients, s) == Cardinality({i \in 1..Len(clients) : clients[i] = s})

\* sseClients.forEach(clientRes => clientRes.write(...))
broadcastSseEvent(data) ==
    received' = [s \in Subs |->
                    IF Occurrences(sseClients, s) > 0
                    THEN Append(received[s], data)
                    ELSE received[s]]

\* a request arrives and is validated (up to the first await)
WebhookReceive(h, body) ==
    /\ wpc[h] \in {"idle", "done"}
    /\ wtouched' = [wtouched EXCEPT ![h] = 0]
    /\ wargs' = [wargs EXCEPT ![h] = NoArgs]
    /\ wlate' = [wlate EXCEPT ![h] =
                    /\ body.call_id \in DOMAIN store
                    /\ store[body.call_id].status = "completed"]
    /\ wmalformed' = [wmalformed EXCEPT ![h] =
                         ~body.kwargs \/ body.call_id = ""]
    /\ IF MissingKwargs(body)
       THEN /\ wres' = [wres EXCEPT ![h] =
                          [code |-> 400, status |-> "Invalid webhook structure"]]
            /\ wpc' = [wpc EXCEPT ![h] = "done"]
            /\ wbody' = [wbody EXCEPT ![h] = NoBody]
       ELSE IF MissingCallId(body)
       THEN /\ wres' = [wres EXCEPT ![h] =
                          [code |-> 400, status |-> "Missing call_id"]]
            /\ wpc' = [wpc EXCEPT ![h] = "done"]
            /\ wbody' = [wbody EXCEPT ![h] = NoBody]
       ELSE /\ wres' = [wres EXCEPT ![h] = NoResponse]
            /\ wpc' = [wpc EXCEPT ![h] = "select"]
            /\ wbody' = [wbody EXCEPT ![h] = body]
    /\ UNCHANGED <<store, sseClients, emitted, pvars, svars, received>>

\* the status query returns and the handler answers or goes on to the update
WebhookSelect(h) ==
    /\ wpc[h] = "select"
    /\ wtouched' = [wtouched EXCEPT ![h] = @ + 1]
    /\ LET status == recordStatus(wbody[h].call_id)
       IN  IF NoRecordFound(status)
           THEN /\ wres' = [wres EXCEPT ![h] =
                              [code |-> 200, status |-> "no record found"]]
                /\ wpc' = [wpc EXCEPT ![h] = "done"]
                /\ wbody' = [wbody EXCEPT ![h] = NoBody]
                /\ UNCHANGED wargs
           ELSE IF AlreadyCompleted(status)
           THEN /\ wres' = [wres EXCEPT ![h] =
                              [code |-> 200, status |-> "already processed"]]
                /\ wpc' = [wpc EXCEPT ![h] = "done"]
                /\ wbody' = [wbody EXCEPT ![h] = NoBody]
                /\ UNCHANGED wargs
           ELSE /\ wargs' = [wargs EXCEPT ![h] = updateArgs(wbody[h])]
                /\ wpc' = [wpc EXCEPT ![h] = "update"]
                /\ UNCHANGED <<wres, wbody>>
    /\ UNCHANGED <<store, sseClients, wlate, wmalformed, emitted,
                   pvars, svars, received>>

\* updateWithHumanReview: the UPDATE statement and the broadcast after it
updateWithHumanReview(h) ==
    /\ wpc[h] = "update"
    /\ wtouched' = [wtouched EXCEPT ![h] = @ + 1]
    /\ IF affectedRows(wargs[h].callId) = 0
       THEN UNCHANGED <<store, emitted, received>>
       ELSE /\ store' = [store EXCEPT ![wargs[h].callId] =
                            UpdatedRow(@, wargs[h])]
            /\ emitted' = [emitted EXCEPT ![wargs[h].callId] = @ + 1]
            /\ broadcastSseEvent(updatePayload(wargs[h]))
    /\ wpc' = [wpc EXCEPT ![h] = "fetch"]
    /\ UNCHANGED <<sseClients, wbody, wargs, wres, wlate, wmalformed,
                   pvars, svars>>

\* fetchAllClassifications, logEmails and the final response
WebhookRespond(h) ==
    /\ wpc[h] = "fetch"
    /\ wtouched' = [wtouched EXCEPT ![h] = @ + 1]
    /\ wres' = [wres EXCEPT ![h] = [code |-> 200, status |-> "ok"]]
    /\ wpc' = [wpc EXCEPT ![h] = "done"]
    /\ wbody' = [wbody EXCEPT ![h] = NoBody]
    /\ wargs' = [wargs EXCEPT ![h] = NoArgs]
    /\ UNCHANGED <<store, sseClients, wlate, wmalformed,
                   emitted, pvars, svars, received>>

\* the status query (or getConnection) throws: the handler's catch answers
WebhookSelectFails(h) ==
    /\ wpc[h] = "select"
    /\ wtouched' = [wtouched EXCEPT ![h] = @ + 1]
    /\ wres' = [wres EXCEPT ![h] = [code |-> 500, status |-> "error"]]
    /\ wpc' = [wpc EXCEPT ![h] = "done"]
    /\ wbody' = [wbody EXCEPT ![h] = NoBody]
    /\ UNCHANGED <<store, sseClients, wargs, wlate, wmalformed, emitted,
                   pvars, svars, received>>

\* pool.getConnection() in updateWithHumanReview throws, outside its try
\* block: the handler's catch answers
updateGetConnectionFails(h) ==
    /\ wpc[h] = "update"
    /\ wtouched' = [wtouched EXCEPT ![h] = @ + 1]
    /\ wres' = [wres EXCEPT ![h] = [code |-> 500, status |-> "error"]]
    /\ wpc' = [wpc EXCEPT ![h] = "done"]
    /\ wbody' = [wbody EXCEPT ![h] = NoBody]
    /\ wargs' = [wargs EXCEPT ![h] = NoArgs]
    /\ UNCHANGED <<store, sseClients, wlate, wmalformed, emitted, pvars,
                   svars, received>>

\* the UPDATE statement throws: updateWithHumanReview's own catch logs it
\* and returns normally
updateWithHumanReviewFails(h) ==
    /\ wpc[h] = "update"
    /\ wtouched' = [wtouched EXCEPT ![h] = @ + 1]
    /\ wpc' = [wpc EXCEPT ![h] = "fetch"]
    /\ UNCHANGED <<store, sseClients, wbody, wargs, wres, wlate, wmalformed,
                   emitted, pvars, svars, received>>

\* fetchAllClassifications throws: the handler's catch answers
WebhookRespondFails(h) ==
    /\ wpc[h] = "fetch"
    /\ wtouched' = [wtouched EXCEPT ![h] = @ + 1]
    /\ wres' = [wres EXCEPT ![h] = [code |-> 500, status |-> "error"]]
    /\ wpc' = [wpc EXCEPT ![h] = "done"]
    /\ wbody' = [wbody EXCEPT ![h] = NoBody]
    /\ wargs' = [wargs EXCEPT ![h] = NoArgs]
    /\ UNCHANGED <<store, sseClients, wlate, wmalformed, emitted, pvars,
                   svars, received>>

\* ----------------------------------------------------------------- /process

\* mutant: the INSERT marks the row as reviewed, with the proposed label as
\* its final label
InsertedRowReviewed(email, classification) ==
    [email |-> email, classification |-> classification,
     human_classification |-> classification, human_comment |-> Null,
     has_human_review |-> TRUE, status |-> "pending"]

\* the row the INSERT statement creates
InsertedRow(email, classification) ==
    [email |-> email, classification |-> classification,
     human_classification |-> Null, human_comment |-> Null,
     has_human_review |-> FALSE, status |-> "pending"]

\* mutant: the table has no primary key, a second INSERT replaces the row
DuplicateKeyAllowed(callId) == FALSE

\* the INSERT violates the primary key
DuplicateKey(callId) == callId \in DOMAIN store

\* the response of processHandler once processEmails has returned
ProcessDone ==
    /\ ppc' = "done"
    /\ pcall' = NoCall
    /\ pres' = [code |-> 200, status |-> "Processing completed successfully"]

\* POST /process arrives: processHandler calls processEmails
ProcessStart ==
    /\ ppc \in {"idle", "done"}
    /\ ppc' = "classify"
    /\ pidx' = 1
    /\ pcall' = NoCall
    /\ pres' = NoResponse
    /\ UNCHANGED <<store, sseClients, wvars, emitted, dispatched, svars,
                   received>>

\* the id is generated and classifyEmail returns a label
ProcessClassify(callId, label) ==
    /\ ppc = "classify"
    /\ pcall' = [callId |-> callId, classification |-> label]
    /\ ppc' = "store"
    /\ UNCHANGED <<store, sseClients, wvars, emitted, pidx, pres,
                   dispatched, svars, received>>

\* storeEmailClassification: the INSERT; a duplicate key throws, and the
\* catch of processEmails ends the loop
storeEmailClassification ==
    /\ ppc = "store"
    /\ IF DuplicateKey(pcall.callId)
       THEN /\ ProcessDone
            /\ UNCHANGED store
       ELSE /\ store' = [i \in DOMAIN store \cup {pcall.callId} |->
                            IF i = pcall.callId
                            THEN InsertedRow(twoEmailsShuffled[pidx],
                                             pcall.classification)
                            ELSE store[i]]
            /\ ppc' = "dispatch"
            /\ UNCHANGED <<pres, pcall>>
    /\ UNCHANGED <<sseClients, wvars, emitted, pidx,
                   dispatched, svars, received>>

\* hl.createFunctionCall returns; the loop goes on or ends
ProcessDispatch ==
    /\ ppc = "dispatch"
    /\ dispatched' = dispatched \cup {pcall.callId}
    /\ IF pidx = Len(twoEmailsShuffled)
       THEN /\ ProcessDone
            /\ UNCHANGED pidx
       ELSE /\ ppc' = "classify"
            /\ pidx' = pidx + 1
            /\ UNCHANGED <<pres, pcall>>
    /\ UNCHANGED <<store, sseClients, wvars, emitted, svars,
                   received>>

\* mutant: the failure of the INSERT is ignored and the review is dispatched
storeEmailClassificationFailsIgnored ==
    /\ ppc = "store"
    /\ ppc' = "dispatch"
    /\ UNCHANGED <<store, sseClients, wvars, emitted, pidx, pres, pcall,
                   dispatched, svars, received>>

\* the INSERT (or getConnection) throws for another reason than the key:
\* the catch of processEmails ends the loop
storeEmailClassificationFails ==
    /\ ppc = "store"
    /\ ProcessDone
    /\ UNCHANGED <<store, sseClients, wvars, emitted, pidx, dispatched,
                   svars, received>>

\* mutant: a failed dispatch deletes the record it was made for
ProcessDispatchFailsRollback ==
    /\ ppc = "dispatch"
    /\ ProcessDone
    /\ store' = [i \in DOMAIN store \ {pcall.callId} |-> store[i]]
    /\ UNCHANGED <<sseClients, wvars, emitted, pidx, dispatched,
                   svars, received>>

\* hl.createFunctionCall throws: the catch of processEmails ends the loop
ProcessDispatchFails ==
    /\ ppc = "dispatch"
    /\ ProcessDone
    /\ UNCHANGED <<store, sseClients, wvars, emitted, pidx, dispatched,
                   svars, received>>

\* --------------------------------------------------------------------- /sse

\* mutant: splice(index, 1) without the index !== -1 guard; splice(-1, 1)
\* removes the last element
RemoveClientUnguarded(clients, s) ==
    IF Occurrences(clients, s) = 0
    THEN SubSeq(clients, 1, Len(clients) - 1)
    ELSE LET i == CHOOSE k \in 1..Len(clients) :
                      /\ clients[k] = s
                      /\ \A j \in 1..(k - 1) : clients[j] # s
         IN  SubSeq(clients, 1, i - 1) \o SubSeq(clients, i + 1, Len(clients))

\* sseClients.splice(index, 1) at the first index of s
RemoveClient(clients, s) ==
    IF Occurrences(clients, s) = 0 THEN clients
    ELSE LET i == CHOOSE k \in 1..Len(clients) :
                      /\ clients[k] = s
                      /\ \A j \in 1..(k - 1) : clients[j] # s
         IN  SubSeq(clients, 1, i - 1) \o SubSeq(clients, i + 1, Len(clients))

\* `let retries = 3`
SnapshotRetries == 3

\* GET /sse up to its first await: register, then greet
SseConnect(s) ==
    /\ spc[s] = "idle"
    /\ conn' = [conn EXCEPT ![s] = "open"]
    /\ sseClients' = Append(sseClients, s)
    /\ received' = [received EXCEPT ![s] = Append(@, [type |-> "test"])]
    /\ spc' = [spc EXCEPT ![s] = "snapshot"]
    /\ retries' = [retries EXCEPT ![s] = SnapshotRetries]
    /\ attempts' = [attempts EXCEPT ![s] = 0]
    /\ UNCHANGED <<store, wvars, emitted, pvars, listener, heartbeat>>

\* the snapshot query returns: send the rows, start the keepalive and
\* register the 'close' listener
SseSnapshot(s) ==
    /\ spc[s] = "snapshot"
    /\ received' = [received EXCEPT ![s] =
                       Append(@, [type |-> "initialData", rows |-> store])]
    /\ heartbeat' = [heartbeat EXCEPT ![s] = TRUE]
    /\ listener' = [listener EXCEPT ![s] = TRUE]
    /\ spc' = [spc EXCEPT ![s] = "active"]
    /\ attempts' = [attempts EXCEPT ![s] = @ + 1]
    /\ UNCHANGED <<store, sseClients, wvars, emitted, pvars, conn, retries>>

\* mutant: the catch block forgets `retries--`
retriesKept(r) == r

\* `retries--`
retriesAfterFailure(r) == r - 1

\* the snapshot query (or getConnection) throws: count down, then either
\* wait a second and try again or report the failure and go on
SseSnapshotFails(s) ==
    /\ spc[s] = "snapshot"
    /\ attempts' = [attempts EXCEPT ![s] = @ + 1]
    /\ retries' = [retries EXCEPT ![s] = retriesAfterFailure(@)]
    /\ IF retries'[s] = 0
       THEN /\ received' = [received EXCEPT ![s] =
                               Append(@, [type |-> "error"])]
            /\ heartbeat' = [heartbeat EXCEPT ![s] = TRUE]
            /\ listener' = [listener EXCEPT ![s] = TRUE]
            /\ spc' = [spc EXCEPT ![s] = "active"]
       ELSE UNCHANGED <<received, heartbeat, listener, spc>>
    /\ UNCHANGED <<store, sseClients, wvars, emitted, pvars, conn>>

\* the keepalives written to subscriber s so far
Heartbeats(s) ==
    Cardinality({k \in 1..Len(received[s]) :
                    received[s][k].type = "heartbeat"})

\* the setInterval callback: res.write(': heartbeat')
Heartbeat(s) ==
    /\ heartbeat[s]
    /\ Heartbeats(s) < MaxHeartbeats
    /\ received' = [received EXCEPT ![s] = Append(@, [type |-> "heartbeat"])]
    /\ UNCHANGED <<store, sseClients, wvars, emitted, pvars, svars>>

\* the observer's connection closes; a registered listener cleans up
ClientClose(s) ==
    /\ conn[s] = "open"
    /\ conn' = [conn EXCEPT ![s] = "closed"]
    /\ IF listener[s]
       THEN /\ heartbeat' = [heartbeat EXCEPT ![s] = FALSE]
            /\ sseClients' = RemoveClient(sseClients, s)
       ELSE UNCHANGED <<heartbeat, sseClients>>
    /\ UNCHANGED <<store, wvars, emitted, pvars, spc, listener, received,
                   retries, attempts>>

\* ----------------------------------------------------------- specifications

\* Spec: two concurrent /webhook requests and /process, no subscriber.

\* the comments callbacks carry
Comments == {Undefined, <<MarkerBlank, "important">>}

\* the callbacks the endpoint receives
Callbacks ==
    {b \in [kwargs : BOOLEAN, call_id : Ids \cup {""},
            classification : {<<"spam">>}, approved : BOOLEAN,
            comment : Comments] :
        /\ ~b.kwargs => b = [NoBody EXCEPT !.classification = <<"spam">>]
        /\ b.call_id = "" => b = [NoBody EXCEPT !.kwargs = b.kwargs,
                                                !.classification = <<"spam">>]}

\* the labels classifyEmail returns
Proposals == {<<"spam">>}

Next ==
    \/ \E h \in Handlers, b \in Callbacks : WebhookReceive(h, b)
    \/ \E h \in Handlers : WebhookSelect(h)
    \/ \E h \in Handlers : updateWithHumanReview(h)
    \/ \E h \in Handlers : WebhookRespond(h)
    \/ ProcessStart
    \/ \E i \in Ids, l \in Proposals : ProcessClassify(i, l)
    \/ storeEmailClassification
    \/ ProcessDispatch

Spec == Init /\ [][Next]_vars

\* SpecSse: subscribers joining and leaving while one /webhook request at a
\* time and /process run.

\* the callbacks of SpecSse: approvals that echo the dispatched label
SseCallbacks ==
    {[kwargs |-> TRUE, call_id |-> i, classification |-> <<"spam">>,
      approved |-> TRUE, comment |-> Undefined] : i \in Ids}

NextSse ==
    \/ \E b \in SseCallbacks : WebhookReceive("w1", b)
    \/ WebhookSelect("w1")
    \/ updateWithHumanReview("w1")
    \/ WebhookRespond("w1")
    \/ ProcessStart
    \/ \E i \in Ids, l \in Proposals : ProcessClassify(i, l)
    \/ storeEmailClassification
    \/ ProcessDispatch
    \/ \E s \in Subs : SseConnect(s)
    \/ \E s \in Subs : SseSnapshot(s)
    \/ \E s \in Subs : ClientClose(s)

SpecSse == Init /\ [][NextSse]_vars

\* SpecReconcile: one pending record and callbacks of every shape for it,
\* one after the other.

\* the tokens comments are made of
Tokens == {Marker, MarkerBlank, "important", "banana"}

\* every comment of at most MaxCommentLen tokens
WideComments ==
    UNION {[1..n -> Tokens] : n \in 0..MaxCommentLen}

\* callbacks for call-1; a rejection carries no use of kwargs.classification
WideCallbacks ==
    {b \in [kwargs : {TRUE}, call_id : {"call-1"},
            classification : classificationValues \cup {Undefined},
            approved : BOOLEAN,
            comment : WideComments \cup {Undefined}] :
        ~b.approved => b.classification = Undefined}

\* /process has stored call-1 with the label the classifier proposed
InitReconcile ==
    /\ \E l \in classificationValues :
          store = [i \in {"call-1"} |-> InsertedRow("email-a", l)]
    /\ Started

NextReconcile ==
    \/ \E b \in WideCallbacks : WebhookReceive("w1", b)
    \/ WebhookSelect("w1")
    \/ updateWithHumanReview("w1")
    \/ WebhookRespond("w1")

SpecReconcile == InitReconcile /\ [][NextReconcile]_vars

\* SpecFault: one /webhook request at a time, /process and one subscriber,
\* where every database statement and the dispatch may also fail.

\* the callbacks of SpecFault: an approval of call-1, an override of call-2
FaultCallbacks ==
    {[kwargs |-> TRUE, call_id |-> i, classification |-> <<"spam">>,
      approved |-> (i = "call-1"),
      comment |-> IF i = "call-1" THEN Undefined
                  ELSE <<MarkerBlank, "important">>] :
        i \in Ids}

NextFault ==
    \/ \E b \in FaultCallbacks : WebhookReceive("w1", b)
    \/ WebhookSelect("w1")
    \/ WebhookSelectFails("w1")
    \/ updateWithHumanReview("w1")
    \/ updateWithHumanReviewFails("w1")
    \/ updateGetConnectionFails("w1")
    \/ WebhookRespond("w1")
    \/ WebhookRespondFails("w1")
    \/ ProcessStart
    \/ \E i \in Ids, l \in Proposals : ProcessClassify(i, l)
    \/ storeEmailClassification
    \/ storeEmailClassificationFails
    \/ ProcessDispatch
    \/ ProcessDispatchFails
    \/ SseConnect("s1")
    \/ SseSnapshot("s1")
    \/ SseSnapshotFails("s1")
    \/ Heartbeat("s1")
    \/ ClientClose("s1")

SpecFault == Init /\ [][NextFault]_vars

\* ------------------------------------------------------------------- claims

\* request h took a step
Stepped(h) ==
    <<wpc[h], wbody[h], wargs[h], wres[h], wtouched[h], wlate[h],
      wmalformed[h]>>' #
    <<wpc[h], wbody[h], wargs[h], wres[h], wtouched[h], wlate[h],
      wmalformed[h]>>

\* request h's step broadcast nothing and left the table alone
NoEffect ==
    /\ store' = store
    /\ emitted' = emitted
    /\ received' = received

\* C1: of the callbacks handled concurrently for one pending id exactly one
\* applies the transition, so at most one update event is ever broadcast for
\* an id.
C1_AtMostOneEventPerId ==
    \A i \in Ids : emitted[i] <= 1

\* C2: a callback that arrives when its record is already completed is
\* answered 'already processed' at its next step, and that step changes no
\* row and broadcasts nothing.
C2_ReplayIsNoOp ==
    [][\A h \in Handlers :
          (wlate[h] /\ wpc[h] # "done" /\ Stepped(h)) =>
              /\ wpc'[h] = "done"
              /\ wres'[h] = [code |-> 200, status |-> "already processed"]
              /\ NoEffect]_vars

\* C2 witness: a replayed callback has been answered 'already processed'.
C2_Witness ==
    \E h \in Handlers :
        /\ wlate[h]
        /\ wpc[h] = "done"
        /\ wres[h].status = "already processed"

\* C3: a row is created pending, and a completed row stays in the table and
\* stays completed at every later step.
C3_StatusNeverReverts ==
    [][/\ \A i \in DOMAIN store' \ DOMAIN store :
              store'[i].status = "pending"
       /\ \A i \in DOMAIN store :
              store[i].status = "completed" =>
                  i \in DOMAIN store' /\ store'[i].status = "completed"]_vars

\* C3 witness: a row is completed and, after that, a /process run ended and a
\* callback for the completed row was handled.
C3_Witness ==
    \E i \in DOMAIN store, h \in Handlers :
        /\ store[i].status = "completed"
        /\ ppc = "done"
        /\ wlate[h]
        /\ wpc[h] = "done"

\* C4: once a row is completed its final label and its comment never change
\* again.
C4_FinalLabelWrittenOnce ==
    [][\A i \in DOMAIN store :
          store[i].status = "completed" =>
              /\ store'[i].human_classification = store[i].human_classification
              /\ store'[i].human_comment = store[i].human_comment]_vars

\* C5: a callback whose id has no row is answered 200 'no record found', and
\* that step creates no row, changes no row and broadcasts nothing.
C5_UnknownIdIsNoOp ==
    [][\A h \in Handlers :
          (/\ wpc[h] = "select"
           /\ wbody[h].call_id \notin DOMAIN store
           /\ Stepped(h)) =>
              /\ wpc'[h] = "done"
              /\ wres'[h] = [code |-> 200, status |-> "no record found"]
              /\ NoEffect]_vars

\* C5 witness: a callback for an id without a row has been answered.
C5_Witness ==
    \E h \in Handlers :
        /\ wpc[h] = "done"
        /\ wres[h].status = "no record found"
        /\ wtouched[h] = 1

\* C6: a callback without spec.kwargs or without call_id is answered 400 in
\* the step that receives it, having sent no statement to the database, and
\* that step changes no row and broadcasts nothing.
C6_MalformedRejectedBeforeStore ==
    [][\A h \in Handlers :
          (wmalformed'[h] /\ Stepped(h)) =>
              /\ wpc'[h] = "done"
              /\ wres'[h].code = 400
              /\ wtouched'[h] = 0
              /\ NoEffect]_vars

\* C6 witness: both kinds of malformed callback have been rejected.
C6_Witness ==
    \E g, h \in Handlers :
        /\ wmalformed[g] /\ wres[g].status = "Invalid webhook structure"
        /\ wmalformed[h] /\ wres[h].status = "Missing call_id"

\* request h is about to run the UPDATE for a row that exists
Updating(h) ==
    /\ wpc[h] = "update"
    /\ wargs[h].callId \in DOMAIN store
    /\ Stepped(h)

\* C7: when an approving callback completes a pending row, the final label
\* is the label the row has proposed since its creation, whatever the
\* callback carries besides.
C7_ApprovalKeepsProposedLabel ==
    [][\A h \in Handlers :
          (/\ Updating(h)
           /\ wbody[h].approved
           /\ store[wargs[h].callId].status = "pending") =>
              /\ store'[wargs[h].callId].status = "completed"
              /\ store'[wargs[h].callId].human_classification =
                     store[wargs[h].callId].classification]_vars

\* C8: when a callback that does not approve carries a comment with the
\* override marker, the final label stored is a label of the vocabulary.
C8_OverrideWithinVocabulary ==
    [][\A h \in Handlers :
          (/\ Updating(h)
           /\ ~wbody[h].approved
           /\ wbody[h].comment # Undefined
           /\ IncludesMarker(wbody[h].comment)) =>
              store'[wargs[h].callId].human_classification
                  \in classificationValues]_vars

\* the text of a comment as it is stored
Verbatim(comment) == IF comment = Undefined THEN <<>> ELSE comment

\* C9: when a callback for a pending row neither approves nor carries the
\* override marker, the row is completed with the label 'read' and the
\* comment of the callback, unchanged.
C9_FallbackToDefaultLabel ==
    [][\A h \in Handlers :
          (/\ Updating(h)
           /\ ~wbody[h].approved
           /\ ~IncludesMarker(Verbatim(wbody[h].comment))) =>
              /\ store'[wargs[h].callId].status = "completed"
              /\ store'[wargs[h].callId].human_classification = <<"read">>
              /\ store'[wargs[h].callId].human_comment =
                     Verbatim(wbody[h].comment)]_vars

\* C9 witness: a callback with a comment without marker has completed its
\* row with 'read' and that comment.
C9_Witness ==
    \E h \in Handlers :
        /\ wpc[h] = "fetch"
        /\ ~wbody[h].approved
        /\ wbody[h].comment = <<"banana", "important">>
        /\ store[wargs[h].callId].status = "completed"
        /\ store[wargs[h].callId].human_classification = <<"read">>
        /\ store[wargs[h].callId].human_comment = <<"banana", "important">>

\* where the snapshot is in what subscriber s received, 0 when nowhere
SnapshotIndex(s) ==
    IF \E k \in 1..Len(received[s]) : received[s][k].type = "initialData"
    THEN CHOOSE k \in 1..Len(received[s]) :
             received[s][k].type = "initialData"
    ELSE 0

\* where the update events for id i are in what subscriber s received
UpdateIndexes(s, i) ==
    {k \in 1..Len(received[s]) :
        /\ received[s][k].type = "update"
        /\ received[s][k].callId = i}

\* the snapshot subscriber s received shows id i as completed
ShownCompleted(s, i) ==
    LET rows == received[s][SnapshotIndex(s)].rows
    IN  i \in DOMAIN rows /\ rows[i].status = "completed"

\* C10, first part: no update event reaches a subscriber before its snapshot.
C10_NoEventBeforeSnapshot ==
    \A s \in Subs, i \in Ids :
        \A k \in UpdateIndexes(s, i) :
            SnapshotIndex(s) # 0 /\ SnapshotIndex(s) < k

\* C10, second part: no transition is both shown as completed in the
\* snapshot and delivered as an update event.
C10_NoDuplicate ==
    \A s \in Subs, i \in Ids :
        SnapshotIndex(s) # 0 =>
            ~(ShownCompleted(s, i) /\ UpdateIndexes(s, i) # {})

\* C10, third part: a connected subscriber that has its snapshot misses no
\* transition.
C10_NoneMissed ==
    \A s \in Subs, i \in DOMAIN store :
        (/\ SnapshotIndex(s) # 0
         /\ conn[s] = "open"
         /\ store[i].status = "completed") =>
            ShownCompleted(s, i) \/ UpdateIndexes(s, i) # {}

\* C10: a subscriber receives its snapshot and then exactly the update
\* events of the transitions after it: none before the snapshot, none that
\* the snapshot already shows, none missed.
C10_SnapshotThenLaterEvents ==
    /\ C10_NoEventBeforeSnapshot
    /\ C10_NoDuplicate
    /\ C10_NoneMissed

\* subscriber s is in the registry
Registered(clients, s) == Occurrences(clients, s) > 0

\* C11: when an update is published, every registered subscriber whose
\* connection is up is written the event, and every registered subscriber
\* whose write fails (its connection is gone) is removed from the registry.
C11_FailedWriteRemovesSubscriber ==
    [][\A i \in Ids :
          emitted'[i] > emitted[i] =>
              \A s \in Subs :
                  Registered(sseClients, s) =>
                      IF conn[s] = "closed"
                      THEN ~Registered(sseClients', s)
                      ELSE /\ Len(received'[s]) = Len(received[s]) + 1
                           /\ received'[s][Len(received'[s])].type = "update"
                           /\ received'[s][Len(received'[s])].callId = i]_vars

\* C12: a subscriber whose connection has closed, at whatever point after its
\* registration, is out of the registry and has no keepalive running once its
\* handler has run to the end.
C12_ClosedSubscriberIsGone ==
    \A s \in Subs :
        (conn[s] = "closed" /\ spc[s] = "active") =>
            ~Registered(sseClients, s) /\ ~heartbeat[s]

\* C13: removing a handle that is not in the registry leaves the registry as
\* it is, and removing a handle leaves every other handle in it, in order.
C13_RemovalIsIdempotent ==
    \A s \in Subs :
        /\ ~Registered(sseClients, s) => RemoveClient(sseClients, s) = sseClients
        /\ RemoveClient(RemoveClient(sseClients, s), s) =
               RemoveClient(sseClients, s)
        /\ SelectSeq(RemoveClient(sseClients, s), LAMBDA c : c # s) =
               SelectSeq(sseClients, LAMBDA c : c # s)

\* C13 witness: one subscriber has disconnected and been removed while
\* another is still registered.
C13_Witness ==
    \E s, u \in Subs :
        /\ conn[s] = "closed"
        /\ listener[s]
        /\ ~Registered(sseClients, s)
        /\ Registered(sseClients, u)

\* the messages of one type written to subscriber s
Messages(s, type) ==
    {k \in 1..Len(received[s]) : received[s][k].type = type}

\* C14: the snapshot fetch of a subscription makes at most 3 attempts; it
\* ends with the snapshot at the first attempt that succeeds, or with the
\* failure report after the third attempt failed, and in both cases a
\* connected subscriber stays registered with its keepalive running.
C14_SnapshotFetchIsBounded ==
    \A s \in Subs :
        /\ attempts[s] <= 3
        /\ spc[s] = "snapshot" =>
               Messages(s, "initialData") \cup Messages(s, "error") = {}
        /\ spc[s] = "active" =>
               /\ Cardinality(Messages(s, "initialData")) +
                      Cardinality(Messages(s, "error")) = 1
               /\ Messages(s, "initialData") # {} =>
                      attempts[s] = 4 - retries[s]
               /\ Messages(s, "error") # {} =>
                      attempts[s] = 3 /\ retries[s] = 0
               /\ conn[s] = "open" =>
                      Registered(sseClients, s) /\ heartbeat[s]

\* C14 witness: after three failed attempts the subscriber was told that
\* the snapshot is unavailable, and later received an update event and a
\* keepalive.
C14_Witness ==
    \E s \in Subs :
        /\ attempts[s] = 3
        /\ conn[s] = "open"
        /\ \E k \in Messages(s, "error") :
              /\ \E j \in Messages(s, "update") : j > k
              /\ \E j \in Messages(s, "heartbeat") : j > k

\* C15: a webhook whose UPDATE failed does not answer 'ok': whenever the
\* handler answers 'ok' after its update step, the record of its callback
\* is Completed.
C15_UpdateFailureIsSurfaced ==
    [][\A h \in Handlers :
          (/\ wpc[h] = "fetch"
           /\ wpc'[h] = "done"
           /\ wres'[h].status = "ok"
           /\ wargs[h].callId \in DOMAIN store)
          => store'[wargs[h].callId].status = "completed"]_vars

\* a step that ends processEmails because the INSERT or the dispatch of the
\* current item threw
CreateOrDispatchFailed ==
    /\ ppc' = "done"
    /\ \/ ppc = "store"
       \/ ppc = "dispatch" /\ pcall.callId \notin dispatched'

\* C16: when the create or the dispatch of an item failed, /process does
\* not answer 'Processing completed successfully'.
C16_ProcessFailureIsSurfaced ==
    [][CreateOrDispatchFailed =>
          pres'.status # "Processing completed successfully"]_vars

\* C17: the create step of /process inserts a pending record without final
\* label and not human-reviewed when its id is new, and leaving every other
\* record alone; when the id exists, the step fails: it ends the run and
\* leaves the store, the existing record included, unchanged.
C17_CreateInsertsPendingOrFails ==
    [][(ppc = "store" /\ ppc' # "store") =>
          IF pcall.callId \in DOMAIN store
          THEN /\ store' = store
               /\ ppc' = "done"
               /\ dispatched' = dispatched
          ELSE /\ DOMAIN store' = DOMAIN store \cup {pcall.callId}
               /\ store'[pcall.callId].status = "pending"
               /\ store'[pcall.callId].human_classification = Null
               /\ store'[pcall.callId].has_human_review = FALSE
               /\ store'[pcall.callId].classification = pcall.classification
               /\ \A i \in DOMAIN store : store'[i] = store[i]
               /\ ppc' = "dispatch"]_vars

\* C17 witness: the create step is about to run with the id of a record
\* that exists and is completed, while another id is still new.
C17_Witness ==
    /\ ppc = "store"
    /\ pcall.callId \in DOMAIN store
    /\ store[pcall.callId].status = "completed"
    /\ store[pcall.callId].has_human_review
    /\ DOMAIN store # Ids

\* C18: a step in which the dispatch of an item fails leaves the store as
\* it is, the record created for the item included; and the status check of
\* a callback lets a pending record through to the update whether or not
\* its review was dispatched.
C18_DispatchFailureKeepsRecord ==
    [][/\ (ppc = "dispatch" /\ ppc' = "done" /\
           pcall.callId \notin dispatched') =>
              /\ pcall.callId \in DOMAIN store'
              /\ store' = store
       /\ \A h \in Handlers :
              (/\ wpc[h] = "select"
               /\ wpc'[h] # "select"
               /\ wbody[h].call_id \in DOMAIN store
               /\ store[wbody[h].call_id].status = "pending"
               /\ wres'[h].code # 500)
              => /\ wpc'[h] = "update"
                 /\ wargs'[h].callId = wbody[h].call_id]_vars

\* C18 witness: a run of /process ended at its first item, whose
\* record was created but whose review was not dispatched, and a callback
\* has completed that record.
C18_Witness ==
    \E i \in DOMAIN store :
        /\ DOMAIN store = {i}
        /\ dispatched = {}
        /\ ppc = "done"
        /\ pidx = 1
        /\ store[i].status = "completed"
        /\ emitted[i] = 1

\* id i is completed in the table after the step
CompletedAfter(i) == i \in DOMAIN store' /\ store'[i].status = "completed"

\* C19: nothing shows a record as completed before the table does: after
\* every step, each update event a subscriber holds and each completed row
\* of a snapshot a subscriber holds is for a record that is completed in
\* the table, and a status check answers 'already processed' only for a
\* record that is completed in the table.
C19_NoPrematureVisibility ==
    [][/\ \A s \in Subs : \A k \in 1..Len(received'[s]) :
              LET m == received'[s][k]
              IN  /\ m.type = "update" => CompletedAfter(m.callId)
                  /\ m.type = "initialData" =>
                         \A i \in DOMAIN m.rows :
                             m.rows[i].status = "completed" =>
                                 CompletedAfter(i)
       /\ \A h \in Handlers :
              (wpc[h] = "select" /\ wres'[h].status = "already processed")
              => /\ wbody[h].call_id \in DOMAIN store
                 /\ store[wbody[h].call_id].status = "completed"]_vars

\* C19 witness: one subscriber holds an update event for a record, another
\* holds a snapshot that shows the record completed, and a callback for it
\* was answered 'already processed'.
C19_Witness ==
    \E i \in Ids, s \in Subs, r \in Subs, h \in Handlers :
        /\ UpdateIndexes(s, i) # {}
        /\ r # s
        /\ SnapshotIndex(r) > 0
        /\ ShownCompleted(r, i)
        /\ wres[h].status = "already processed"
        /\ wpc[h] = "done"

\* handler h takes its update step
UpdateStep(h) == wpc[h] = "update" /\ wpc'[h] = "fetch"

\* the update step of handler h changed the record of its callback
Applied(h) ==
    /\ wargs[h].callId \in DOMAIN store
    /\ store'[wargs[h].callId] # store[wargs[h].callId]

\* the update event that tells what the table holds for id i after the step
EventOf(i) ==
    [type |-> "update", callId |-> i,
     humanClassification |-> store'[i].human_classification,
     humanComment |-> store'[i].human_comment]

\* C20: an update step that changed the record appends one update event,
\* with the id, final label and comment now in the record, to what each
\* registered subscriber is written, and nothing to the others; an update
\* step that changed no record, and every step that is not an update step,
\* writes no update event.
C20_EventExactlyWhenApplied ==
    [][/\ \A h \in Handlers :
              UpdateStep(h) =>
                  IF Applied(h)
                  THEN /\ emitted'[wargs[h].callId] =
                              emitted[wargs[h].callId] + 1
                       /\ \A s \in Subs :
                              received'[s] =
                                  IF Registered(sseClients, s)
                                  THEN Append(received[s],
                                              EventOf(wargs[h].callId))
                                  ELSE received[s]
                  ELSE emitted' = emitted /\ received' = received
       /\ (\A h \in Handlers : ~UpdateStep(h)) =>
              /\ emitted' = emitted
              /\ \A s \in Subs :
                     Cardinality({k \in 1..Len(received'[s]) :
                                     received'[s][k].type = "update"}) =
                         Cardinality(Messages(s, "update"))]_vars

\* C20 witness: a record was completed by one applied update with a
\* reviewer's comment, a registered subscriber holds its one event, and an
\* update step for the other record failed and left no event.
C20_Witness ==
    \E i \in DOMAIN store, j \in DOMAIN store, s \in Subs :
        /\ store[i].status = "completed"
        /\ store[i].human_comment # <<>>
        /\ emitted[i] = 1
        /\ Cardinality(UpdateIndexes(s, i)) = 1
        /\ j # i
        /\ store[j].status = "pending"
        /\ \E h \in Handlers : wpc[h] = "fetch" /\ wargs[h].callId = j
        /\ UpdateIndexes(s, j) = {}

\* C21: a step of a webhook handler reconciling id X creates and deletes no
\* record, leaves every record other than X as it is, and leaves the email
\* and the proposed label of X as they are.
C21_ReconcileFrame ==
    [][\A h \in Handlers :
          Stepped(h) =>
              /\ DOMAIN store' = DOMAIN store
              /\ \A i \in DOMAIN store :
                     /\ i # wargs[h].callId => store'[i] = store[i]
                     /\ store'[i].email = store[i].email
                     /\ store'[i].classification =
                            store[i].classification]_vars

\* C21 witness: a handler has just completed one record with a final label
\* other than the proposed one, while another record is pending.
C21_Witness ==
    \E h \in Handlers, j \in DOMAIN store :
        /\ wpc[h] = "fetch"
        /\ wargs[h].callId \in DOMAIN store
        /\ store[wargs[h].callId].status = "completed"
        /\ store[wargs[h].callId].human_classification #
               store[wargs[h].callId].classification
        /\ j # wargs[h].callId
        /\ store[j].status = "pending"

\* C22: in every state of the table, a record is pending exactly when its
\* final label is null and it is not marked reviewed, and completed exactly
\* when its final label is set and it is marked reviewed.
C22_StatusMatchesLabel ==
    \A i \in DOMAIN store :
        LET row == store[i]
            unlabelled == row.human_classification = Null
            labelled == /\ row.human_classification # Null
                        /\ row.human_classification # Undefined
                        /\ row.human_classification # <<>>
        IN  /\ row.status \in {"pending", "completed"}
            /\ row.status = "pending" <=>
                   (unlabelled /\ ~row.has_human_review)
            /\ row.status = "completed" <=>
                   (labelled /\ row.has_human_review)

\* C22 witness: a record was completed by a callback that named no label
\* and no comment, and holds the default label.
C22_Witness ==
    \E i \in DOMAIN store :
        /\ store[i].status = "completed"
        /\ store[i].human_classification = DefaultLabel
        /\ store[i].classification # DefaultLabel
        /\ store[i].human_comment = <<>>
        /\ store[i].has_human_review

\* C23: /process goes on to the dispatch of an item only from a create that
\* inserted the item's record as pending; a dispatch is issued only there
\* and only for that id; a create that failed ends the run without a
\* dispatch; so every dispatched id has a record, and a callback answered
\* 'no record found' names an id that was never dispatched.
C23_DispatchOnlyAfterCreate ==
    [][/\ (ppc' = "dispatch" /\ ppc # "dispatch") =>
              /\ ppc = "store"
              /\ pcall' = pcall
              /\ pcall.callId \notin DOMAIN store
              /\ pcall.callId \in DOMAIN store'
              /\ store'[pcall.callId].status = "pending"
       /\ dispatched' # dispatched =>
              /\ ppc = "dispatch"
              /\ dispatched' = dispatched \cup {pcall.callId}
              /\ pcall.callId \in DOMAIN store
       /\ (ppc = "store" /\ ppc' = "done") => dispatched' = dispatched
       /\ dispatched' \subseteq DOMAIN store'
       /\ \A h \in Handlers :
              (wpc[h] = "select" /\ wres'[h].status = "no record found")
              => wbody[h].call_id \notin dispatched]_vars

\* C23 witness: a run of /process dispatched its first item, whose record a
\* callback then found and completed, and ended at the create of its second
\* item, which failed: no record and no dispatch exist for another id.
C23_Witness ==
    \E i \in Ids :
        /\ dispatched = {i}
        /\ DOMAIN store = {i}
        /\ store[i].status = "completed"
        /\ ppc = "done"
        /\ pidx = 2

\* C24: a callback answered with a server failure has changed nothing: when
\* the record it names was not completed as the callback arrived, then as
\* the 500 answer is given the record is not completed and no update event
\* was broadcast for it.
C24_ServerFailureChangedNothing ==
    [][\A h \in Handlers :
          (/\ wpc[h] # "done"
           /\ wpc'[h] = "done"
           /\ wres'[h].code = 500
           /\ ~wlate[h]
           /\ wbody[h].call_id \in Ids)
          => /\ emitted'[wbody[h].call_id] = 0
             /\ wbody[h].call_id \in DOMAIN store' =>
                    store'[wbody[h].call_id].status = "pending"]_vars

====
